---- MODULE Spec2Model ----
(***************************************************************************)
(* Game of Life demo: the World (grid and generation rule) and the         *)
(* Renderer handshake between RunWorldUpdateLoop (update goroutine) and    *)
(* the rendering goroutine that runs ebiten.RunGame (host callbacks        *)
(* Renderer.Update / Renderer.Draw), with the shutdown sequence.           *)
(***************************************************************************)
EXTENDS Integers, Sequences, FiniteSets, TLC

(* ---------------------------- bounds ---------------------------------- *)

\* Largest number of cells of the exhaustively enumerated worlds (WorldSpec):
\* every width and height with width*height <= MaxCells, every content.
MaxCells == 9
\* Number of successive World.Update calls on an enumerated world (WorldSpec).
MaxGen == 2
\* Dimensions and seeding of the world the concurrent model runs on.
CW == 3
CH == 2
MaxInitLive == 3
\* Number of ticker ticks taken in Spec.
MaxTicks == 3

\* Side of the square grid that carries the glider, and the number of
\* World.Update calls made on it.
GliderDim == 6
GliderGens == 4

VARIABLES
    world,      \* World{area, width, height}; area is indexed 0..width*height-1
    area0,      \* the area NewWorld produced (history)
    prevArea,   \* the area replaced by the last World.Update (history)
    gen,        \* number of completed World.Update calls

    updPc,      \* position of the update goroutine (RunWorldUpdateLoop)
    hostPc,     \* position of the rendering goroutine (StartRenderingLoop)
    shutdown,   \* Renderer.shutdown (atomic.Value holding a bool)
    chClosed,   \* r.ch has been closed
    timerFired, \* the one-shot shutdown timer has been consumed
    hostErr,    \* what ebiten.RunGame returned: "none", "Shutdown", "fatal"
    surface,    \* pixels set on r.dc by the last paint pass
    painted,    \* generations painted, in order (history)
    drawFlag,   \* value of the shutdown flag when the current Draw was invoked
    cnt         \* instrumentation counters (history)

vars == <<world, area0, prevArea, gen, updPc, hostPc, shutdown, chClosed,
          timerFired, hostErr, surface, painted, drawFlag, cnt>>

worldVars == <<world, area0, prevArea, gen>>
syncVars == <<updPc, hostPc, shutdown, chClosed, timerFired, hostErr,
              surface, painted, drawFlag, cnt>>

(* ----------------------------- World ---------------------------------- *)

\* make([]bool, n): n cells, all false.
MakeArea(n) == [i \in 0..(n - 1) |-> FALSE]

\* One iteration of the two nested loops of neighbourCount; k runs over the
\* nine (j, i) pairs in the order the loops visit them.
NeighbourTerm(a, width, height, x, y, k) ==
    LET j == (k \div 3) - 1
        i == (k % 3) - 1
        x2 == x + i
        y2 == y + j
    IN  IF i = 0 /\ j = 0 THEN 0
        ELSE IF x2 < 0 \/ y2 < 0 \/ width <= x2 \/ height <= y2 THEN 0
        ELSE IF a[y2 * width + x2] THEN 1 ELSE 0

RECURSIVE NeighbourLoop(_, _, _, _, _, _)
NeighbourLoop(a, width, height, x, y, k) ==
    IF k = 9 THEN 0
    ELSE NeighbourTerm(a, width, height, x, y, k)
         + NeighbourLoop(a, width, height, x, y, k + 1)

\* neighbourCount without the "i == 0 && j == 0" test: the cell counts itself.
NeighbourCountSelf(a, width, height, x, y) ==
    NeighbourLoop(a, width, height, x, y, 0) + (IF a[y * width + x] THEN 1 ELSE 0)

\* A neighbour count that wraps around the grid edges instead of skipping the
\* out-of-grid neighbours.
NeighbourCountWrap(a, width, height, x, y) ==
    LET T(k) == LET j == (k \div 3) - 1
                    i == (k % 3) - 1
                    x2 == (x + i + width) % width
                    y2 == (y + j + height) % height
                IN  IF i = 0 /\ j = 0 THEN 0
                    ELSE IF a[y2 * width + x2] THEN 1 ELSE 0
    IN  T(0) + T(1) + T(2) + T(3) + T(5) + T(6) + T(7) + T(8)

\* neighbourCount(a, width, height, x, y)
neighbourCount(a, width, height, x, y) ==
    NeighbourLoop(a, width, height, x, y, 0)

\* The indices neighbourCount reads in a ("a[y2*width+x2]") for the cell (x, y).
NeighbourReads(width, height, x, y) ==
    {(y + j) * width + (x + i) : <<i, j>> \in
        {d \in (-1..1) \X (-1..1) :
            /\ ~(d[1] = 0 /\ d[2] = 0)
            /\ ~(x + d[1] < 0 \/ y + d[2] < 0 \/ width <= x + d[1] \/ height <= y + d[2])}}

\* The switch of World.Update with "&& w.area[...]" dropped from rule 2.
SwitchNoAliveTest(pop, alive, cur) ==
    IF pop < 2 THEN FALSE
    ELSE IF pop = 2 \/ pop = 3 THEN TRUE
    ELSE IF pop > 3 THEN FALSE
    ELSE cur

\* The switch of World.Update with rule 1 storing true instead of false.
SwitchRule1Alive(pop, alive, cur) ==
    IF pop < 2 THEN TRUE
    ELSE IF (pop = 2 \/ pop = 3) /\ alive THEN TRUE
    ELSE IF pop > 3 THEN FALSE
    ELSE IF pop = 3 THEN TRUE
    ELSE cur

\* The switch of World.Update: the value next[y*width+x] holds after it, where
\* cur is the value it held before (no case matching leaves it untouched).
UpdateSwitch(pop, alive, cur) ==
    IF pop < 2 THEN FALSE
    ELSE IF (pop = 2 \/ pop = 3) /\ alive THEN TRUE
    ELSE IF pop > 3 THEN FALSE
    ELSE IF pop = 3 THEN TRUE
    ELSE cur

\* "next[y*width+x] = v" with next the very slice w.area (no fresh make): the
\* store lands in the old generation too.
UpdateStoreAliased(old, next, k, v) ==
    [old |-> [old EXCEPT ![k] = v], next |-> [old EXCEPT ![k] = v]]

\* The store "next[y*width+x] = v" of World.Update, on the two slices that are
\* live during the call: old (w.area's backing array) and next (the make of
\* line 75). Only next is written.
UpdateStore(old, next, k, v) ==
    [old |-> old, next |-> [next EXCEPT ![k] = v]]

\* The loops of World.Update from cell k on, in visiting order (y outer, x
\* inner, so k = y*width + x); reads w.area, stores into next.
RECURSIVE UpdateLoop(_, _, _)
UpdateLoop(w, next, k) ==
    IF k >= w.width * w.height THEN next
    ELSE LET x == k % w.width
             y == k \div w.width
             pop == neighbourCount(w.area, w.width, w.height, x, y)
         IN  UpdateLoop(w,
                        UpdateStore(w.area, next, k,
                                    UpdateSwitch(pop, w.area[k], next[k])).next,
                        k + 1)

\* World.Update: w.area = next
WorldUpdate(w) ==
    [w EXCEPT !.area = UpdateLoop(w, MakeArea(w.width * w.height), 0)]

\* The old slice through the stores of World.Update from cell k on: the store
\* for cell k puts the cell's new value into next (false before the store).
RECURSIVE PreviousLoop(_, _, _)
PreviousLoop(w, old, k) ==
    IF k >= w.width * w.height THEN old
    ELSE PreviousLoop(w,
                      UpdateStore(old, MakeArea(w.width * w.height), k,
                                  UpdateSwitch(neighbourCount(w.area, w.width, w.height,
                                                              k % w.width, k \div w.width),
                                               w.area[k], FALSE)).old,
                      k + 1)

\* The contents of the previous generation's slice once World.Update has
\* returned.
PreviousAfterUpdate(w) == PreviousLoop(w, w.area, 0)

\* World.Draw: the pixels it sets on the context.
WorldDraw(w) ==
    {<<i % w.width, i \div w.height>> : i \in {k \in DOMAIN w.area : w.area[k]}}

\* The worlds NewWorld(width, height, maxInitLiveCells) can return: init makes
\* maxInitLiveCells placements with replacement, so between 1 and
\* maxInitLiveCells cells are alive (none when maxInitLiveCells = 0).
NewWorld(width, height, maxInitLiveCells) ==
    {[area |-> a, width |-> width, height |-> height] :
        a \in {f \in [0..(width * height - 1) -> BOOLEAN] :
                 LET n == Cardinality({i \in DOMAIN f : f[i]})
                 IN  /\ n <= maxInitLiveCells
                     /\ (maxInitLiveCells > 0 => n >= 1)}}

(* ------------------------- the glider --------------------------------- *)

\* The standard glider, its bounding box at (ox, oy).
GliderCells(ox, oy) ==
    {<<ox + 1, oy>>, <<ox + 2, oy + 1>>,
     <<ox, oy + 2>>, <<ox + 1, oy + 2>>, <<ox + 2, oy + 2>>}

CellsArea(cells, width, height) ==
    [i \in 0..(width * height - 1) |-> <<i % width, i \div width>> \in cells]

GliderWorld ==
    [area |-> CellsArea(GliderCells(1, 1), GliderDim, GliderDim),
     width |-> GliderDim, height |-> GliderDim]

(* -------------------- World on its own: WorldSpec --------------------- *)

SyncInit ==
    /\ updPc = "select"
    /\ hostPc = "loop"
    /\ shutdown = FALSE
    /\ chClosed = FALSE
    /\ timerFired = FALSE
    /\ hostErr = "none"
    /\ surface = {}
    /\ painted = <<>>
    /\ drawFlag = FALSE
    /\ cnt = [updates |-> 0, ready |-> 0, acks |-> 0, paints |-> 0,
              closes |-> 0, panics |-> 0, rendersAfterFlag |-> 0]

WorldInit ==
    /\ world \in (UNION {NewWorld(d[1], d[2], d[1] * d[2]) \cup NewWorld(d[1], d[2], 0) :
                            d \in {e \in (1..MaxCells) \X (1..MaxCells) :
                                      e[1] * e[2] <= MaxCells}}
                  \cup {GliderWorld})
    /\ area0 = world.area
    /\ prevArea = world.area
    /\ gen = 0
    /\ SyncInit

\* w.Update(&t) called on its own, generation after generation.
WorldStep ==
    /\ gen < (IF world.width * world.height > MaxCells THEN GliderGens ELSE MaxGen)
    /\ prevArea' = PreviousAfterUpdate(world)
    /\ world' = WorldUpdate(world)
    /\ gen' = gen + 1
    /\ UNCHANGED <<area0, syncVars>>

WorldSpec == WorldInit /\ [][WorldStep]_vars

(* ------------------- the two goroutines: Spec ------------------------- *)

\* Instrumentation counters stop counting at Cap; in Spec the ticker bound
\* keeps every counter below it.
Cap == MaxTicks + 1
Bump(n) == IF n < Cap THEN n + 1 ELSE n

\* main: NewWorld, NewRenderer (shutdown.Store(false), ch unbuffered and open),
\* StartRenderingLoop, RunWorldUpdateLoop.
Init ==
    /\ world \in NewWorld(CW, CH, MaxInitLive)
    /\ area0 = world.area
    /\ prevArea = world.area
    /\ gen = 0
    /\ SyncInit

\* RunWorldUpdateLoop, case t := <-ticker.C: w.Update(&t) is entered.
TickerCase ==
    /\ updPc = "select"
    /\ updPc' = "update"
    /\ cnt' = [cnt EXCEPT !.updates = Bump(@)]
    /\ UNCHANGED <<worldVars, hostPc, shutdown, chClosed, timerFired, hostErr,
                   surface, painted, drawFlag>>

\* The ticker case with r.Render() called before w.Update(&t): the handshake
\* starts on the generation that is already there.
UpdateReturnRenderFirst ==
    /\ updPc = "update"
    /\ updPc' = "renderSend"
    /\ cnt' = [cnt EXCEPT !.rendersAfterFlag = IF shutdown THEN Bump(@) ELSE @]
    /\ UNCHANGED <<worldVars, hostPc, shutdown, chClosed, timerFired, hostErr,
                   surface, painted, drawFlag>>

\* World.Update returns (w.area = next) and r.Render() is called: it is about
\* to send on r.ch.
UpdateReturn ==
    /\ updPc = "update"
    /\ prevArea' = PreviousAfterUpdate(world)
    /\ world' = WorldUpdate(world)
    /\ gen' = Bump(gen)
    /\ updPc' = "renderSend"
    /\ cnt' = [cnt EXCEPT !.rendersAfterFlag = IF shutdown THEN Bump(@) ELSE @]
    /\ UNCHANGED <<area0, hostPc, shutdown, chClosed, timerFired, hostErr,
                   surface, painted, drawFlag>>

\* The timer case leaving the loop itself ("break Loop" after r.Shutdown()).
ShutdownCaseBreaks ==
    /\ updPc = "select"
    /\ ~timerFired
    /\ timerFired' = TRUE
    /\ shutdown' = TRUE
    /\ updPc' = "done"
    /\ UNCHANGED <<worldVars, hostPc, chClosed, hostErr, surface, painted,
                   drawFlag, cnt>>

\* RunWorldUpdateLoop, case <-shutdown.C: r.Shutdown() stores true. The timer
\* is one-shot.
ShutdownCase ==
    /\ updPc = "select"
    /\ ~timerFired
    /\ timerFired' = TRUE
    /\ shutdown' = TRUE
    /\ UNCHANGED <<worldVars, updPc, hostPc, chClosed, hostErr, surface,
                   painted, drawFlag, cnt>>

\* Render's send that returns without waiting for the acknowledgement.
RenderSendNoWait ==
    /\ updPc = "renderSend"
    /\ hostPc = "drawRecv"
    /\ ~chClosed
    /\ updPc' = "select"
    /\ hostPc' = "paint"
    /\ cnt' = [cnt EXCEPT !.ready = Bump(@)]
    /\ UNCHANGED <<worldVars, shutdown, chClosed, timerFired, hostErr, surface,
                   painted, drawFlag>>

\* Renderer.Render's "r.ch <- struct{}{}" meets Renderer.Draw's "<-r.ch": the
\* ready signal passes; Render goes on to its deferred receive, Draw to painting.
RenderSend ==
    /\ updPc = "renderSend"
    /\ hostPc = "drawRecv"
    /\ ~chClosed
    /\ updPc' = "renderRecv"
    /\ hostPc' = "paint"
    /\ cnt' = [cnt EXCEPT !.ready = Bump(@)]
    /\ UNCHANGED <<worldVars, shutdown, chClosed, timerFired, hostErr, surface,
                   painted, drawFlag>>

\* Renderer.Render without the recover() of its deferred function: the panic of
\* the send on the closed channel ends the goroutine, and the process.
RenderSendClosedUnrecovered ==
    /\ updPc = "renderSend"
    /\ chClosed
    /\ updPc' = "panicked"
    /\ cnt' = [cnt EXCEPT !.panics = Bump(@)]
    /\ UNCHANGED <<worldVars, hostPc, shutdown, chClosed, timerFired, hostErr,
                   surface, painted, drawFlag>>

\* Renderer.Render's send finds r.ch closed (closed before the send, or while
\* the send was blocked): it panics; the deferred function recovers and goes on
\* to "<-r.ch".
RenderSendClosed ==
    /\ updPc = "renderSend"
    /\ chClosed
    /\ updPc' = "renderRecv"
    /\ cnt' = [cnt EXCEPT !.panics = Bump(@)]
    /\ UNCHANGED <<worldVars, hostPc, shutdown, chClosed, timerFired, hostErr,
                   surface, painted, drawFlag>>

\* Renderer.Render's deferred "<-r.ch" on the closed channel returns at once,
\* and Render returns to the loop.
RenderRecvClosed ==
    /\ updPc = "renderRecv"
    /\ chClosed
    /\ updPc' = "select"
    /\ UNCHANGED <<worldVars, hostPc, shutdown, chClosed, timerFired, hostErr,
                   surface, painted, drawFlag, cnt>>

\* Renderer.Update with the test inverted: the error while the flag is unset.
RendererUpdateInverted ==
    /\ hostPc = "loop"
    /\ IF ~shutdown
       THEN /\ hostPc' = "returned"
            /\ hostErr' = "Shutdown"
       ELSE /\ hostPc' = "frame"
            /\ UNCHANGED hostErr
    /\ UNCHANGED <<worldVars, updPc, shutdown, chClosed, timerFired, surface,
                   painted, drawFlag, cnt>>

\* Renderer.Update that also closes r.ch when it sees the flag.
RendererUpdateCloses ==
    /\ hostPc = "loop"
    /\ IF shutdown
       THEN /\ hostPc' = "returned"
            /\ hostErr' = "Shutdown"
            /\ chClosed' = TRUE
            /\ cnt' = [cnt EXCEPT !.closes = Bump(@)]
       ELSE /\ hostPc' = "frame"
            /\ UNCHANGED <<hostErr, chClosed, cnt>>
    /\ UNCHANGED <<worldVars, updPc, shutdown, timerFired, surface, painted,
                   drawFlag>>

\* ebiten.RunGame calls Renderer.Update: with the flag set it returns the error
\* and RunGame returns it; otherwise nil, and the frame goes on.
RendererUpdate ==
    /\ hostPc = "loop"
    /\ IF shutdown
       THEN /\ hostPc' = "returned"
            /\ hostErr' = "Shutdown"
       ELSE /\ hostPc' = "frame"
            /\ UNCHANGED hostErr
    /\ UNCHANGED <<worldVars, updPc, shutdown, chClosed, timerFired, surface,
                   painted, drawFlag, cnt>>

\* Renderer.Draw that paints without the receive on r.ch.
RendererDrawNoRecv ==
    /\ hostPc \in {"loop", "frame"}
    /\ hostPc' = "paint"
    /\ drawFlag' = shutdown
    /\ UNCHANGED <<worldVars, updPc, shutdown, chClosed, timerFired, hostErr,
                   surface, painted, cnt>>

\* ebiten.RunGame calls Renderer.Draw, after the frame's Update calls or, in a
\* frame with no Update call due, without one: Draw reaches "<-r.ch".
RendererDraw ==
    /\ hostPc \in {"loop", "frame"}
    /\ hostPc' = "drawRecv"
    /\ drawFlag' = shutdown
    /\ UNCHANGED <<worldVars, updPc, shutdown, chClosed, timerFired, hostErr,
                   surface, painted, cnt>>

\* Renderer.Draw that returns after painting without its deferred send.
DrawPaintNoAck ==
    /\ hostPc = "paint"
    /\ surface' = WorldDraw(world)
    /\ painted' = IF Len(painted) < Cap THEN Append(painted, gen) ELSE painted
    /\ cnt' = [cnt EXCEPT !.paints = Bump(@)]
    /\ hostPc' = "loop"
    /\ UNCHANGED <<worldVars, updPc, shutdown, chClosed, timerFired, hostErr,
                   drawFlag>>

\* Renderer.Draw between its receive and its return: Clear, DrawHexagonGrid,
\* r.world.Draw(r.dc), screen.DrawImage.
DrawPaint ==
    /\ hostPc = "paint"
    /\ surface' = WorldDraw(world)
    /\ painted' = IF Len(painted) < Cap THEN Append(painted, gen) ELSE painted
    /\ cnt' = [cnt EXCEPT !.paints = Bump(@)]
    /\ hostPc' = "drawAck"
    /\ UNCHANGED <<worldVars, updPc, shutdown, chClosed, timerFired, hostErr,
                   drawFlag>>

\* Renderer.Draw's deferred "r.ch <- struct{}{}" meets Renderer.Render's
\* deferred "<-r.ch": the acknowledgement passes and both return.
DrawAck ==
    /\ hostPc = "drawAck"
    /\ updPc = "renderRecv"
    /\ ~chClosed
    /\ hostPc' = "loop"
    /\ updPc' = "select"
    /\ cnt' = [cnt EXCEPT !.acks = Bump(@)]
    /\ UNCHANGED <<worldVars, shutdown, chClosed, timerFired, hostErr, surface,
                   painted, drawFlag>>

\* ebiten.RunGame returns an error of its own (no window, no graphics device):
\* it is logged and the goroutine's function returns.
RunGameFatal ==
    /\ hostPc \in {"loop", "frame"}
    /\ hostPc' = "returned"
    /\ hostErr' = "fatal"
    /\ UNCHANGED <<worldVars, updPc, shutdown, chClosed, timerFired, surface,
                   painted, drawFlag, cnt>>

\* The deferred function of the rendering goroutine with close(r.ch) left out.
CloseChOmitted ==
    /\ hostPc = "returned"
    /\ hostPc' = "chSend"
    /\ UNCHANGED <<worldVars, updPc, shutdown, chClosed, timerFired, hostErr,
                   surface, painted, drawFlag, cnt>>

\* The deferred function of the rendering goroutine: recover(); close(r.ch);
\* it then reaches "ch <- struct{}{}".
CloseCh ==
    /\ hostPc = "returned"
    /\ chClosed' = TRUE
    /\ hostPc' = "chSend"
    /\ cnt' = [cnt EXCEPT !.closes = Bump(@)]
    /\ UNCHANGED <<worldVars, updPc, shutdown, timerFired, hostErr, surface,
                   painted, drawFlag>>

\* The rendering goroutine's "ch <- struct{}{}" meets RunWorldUpdateLoop's
\* "case <-ch": break Loop, and the goroutine ends.
DoneCase ==
    /\ updPc = "select"
    /\ hostPc = "chSend"
    /\ updPc' = "done"
    /\ hostPc' = "exited"
    /\ UNCHANGED <<worldVars, shutdown, chClosed, timerFired, hostErr, surface,
                   painted, drawFlag, cnt>>

Handshake ==
    \/ UpdateReturn
    \/ ShutdownCase
    \/ RenderSend
    \/ RenderSendClosed
    \/ RenderRecvClosed
    \/ RendererUpdate
    \/ RendererDraw
    \/ DrawPaint
    \/ DrawAck
    \/ RunGameFatal
    \/ CloseCh
    \/ DoneCase

\* Spec: the ticker fires MaxTicks times at most.
Next ==
    \/ (cnt.updates < MaxTicks /\ TickerCase)
    \/ Handshake

Spec == Init /\ [][Next]_vars

\* FairSpec: the ticker never stops. Every goroutine that can run does; the
\* select of RunWorldUpdateLoop picks among its ready cases at random, so a
\* case that is ready again and again is taken (DoneCase); ebiten.RunGame
\* calls Renderer.Update again and again while it runs.
NextFair ==
    \/ TickerCase
    \/ Handshake

Fairness ==
    /\ WF_vars(TickerCase)
    /\ WF_vars(UpdateReturn)
    /\ WF_vars(RenderSend)
    /\ WF_vars(RenderSendClosed)
    /\ WF_vars(RenderRecvClosed)
    /\ SF_vars(RendererUpdate)
    /\ WF_vars(RendererDraw)
    /\ WF_vars(DrawPaint)
    /\ WF_vars(DrawAck)
    /\ WF_vars(CloseCh)
    /\ SF_vars(DoneCase)

\* FairSpec starts from the worlds a single placement of init gives.
FairInit ==
    /\ world \in NewWorld(CW, CH, 1)
    /\ area0 = world.area
    /\ prevArea = world.area
    /\ gen = 0
    /\ SyncInit

FairSpec == FairInit /\ [][NextFair]_vars /\ Fairness

(* ------------------------------ claims -------------------------------- *)

\* Draw between its receive on r.ch and its acknowledgement send.
PaintingSection == {"paint", "drawAck"}

\* C1: the number of World.Update calls exceeds the number of acknowledgements
\* Render received from Draw by at most 1, in every reachable state.
C1_UpdateAtMostOneAhead == cnt.updates - cnt.acks <= 1

\* C2: World.Update and the painting section of Draw exclude each other: the
\* update goroutine is never inside World.Update while Draw is between its
\* receive and its acknowledgement, and while Draw is there the generation it
\* paints is complete and Render is waiting for the acknowledgement.
C2_UpdatePaintExclusive ==
    /\ ~(updPc = "update" /\ hostPc \in PaintingSection)
    /\ hostPc \in PaintingSection => (updPc = "renderRecv" /\ gen = cnt.updates)

\* C2 witness: Draw paints the second generation, the first one acknowledged.
C2_Witness == hostPc = "paint" /\ gen = 2 /\ cnt.acks = 1

\* C3: every paint pass follows the receipt of a ready signal sent by Render
\* since the previous paint, so paint passes never outnumber ready signals, and
\* no generation is painted twice.
C3_PaintOnlySignaled ==
    /\ cnt.paints <= cnt.ready
    /\ hostPc = "paint" => cnt.ready = cnt.paints + 1
    /\ \A i, j \in DOMAIN painted : i < j => painted[i] < painted[j]

\* C3 witness: two paint passes have been made.
C3_Witness == cnt.paints = 2 /\ Len(painted) = 2

\* C4: once the shutdown flag is set, RunWorldUpdateLoop eventually leaves its
\* loop (it neither stays blocked in Render nor reaches a deadlock), under the
\* fairness of FairSpec.
C4_ShutdownLeadsToExit == shutdown ~> (updPc = "done")

\* C4 witness: the flag is set, Render ran into the closed channel, and the
\* loop has exited.
C4_Witness == shutdown /\ updPc = "done" /\ cnt.panics > 0 /\ hostErr = "Shutdown"

\* C5: after Shutdown has set the flag the update loop starts at most one more
\* Render call.
C5_OneMoreHandshake == cnt.rendersAfterFlag <= 1

\* C6: a Draw invoked after the flag was set neither receives on r.ch nor
\* paints.
C6_NoPaintAfterFlag == ~(drawFlag /\ hostPc \in PaintingSection)

\* C7: when r.ch is closed Render has no send or receive on it pending and
\* starts none afterwards, so no closed-channel panic is ever raised.
C7_NoAccessAfterClose ==
    /\ chClosed => updPc \notin {"renderSend", "renderRecv"}
    /\ cnt.panics = 0

\* C8: r.ch is closed exactly once, always once the host loop has ended, and
\* no Draw is running at or started after the close.
C8_ClosedOnceAfterHost ==
    /\ cnt.closes <= 1
    /\ chClosed <=> cnt.closes = 1
    /\ chClosed => hostPc \in {"chSend", "exited"}
    /\ hostPc \in {"chSend", "exited"} => chClosed

\* C8 witness: frames were painted, RunGame returned, r.ch was closed and the
\* goroutine ended.
C8_Witness == hostPc = "exited" /\ cnt.closes = 1 /\ cnt.paints >= 1

\* The live in-grid Moore neighbours of (x, y) in a, counted as a set.
LiveNeighbours(a, width, height, x, y) ==
    Cardinality({c \in (0..(width - 1)) \X (0..(height - 1)) :
                    /\ c /= <<x, y>>
                    /\ c[1] - x \in -1..1
                    /\ c[2] - y \in -1..1
                    /\ a[c[2] * width + c[1]]})

\* C9: after World.Update every cell is alive exactly when it had 3 live
\* neighbours in the old generation, or 2 and was alive; the old generation is
\* read as a snapshot, whatever the visiting order.
C9_LifeRule ==
    gen > 0 =>
        /\ DOMAIN world.area = DOMAIN prevArea
        /\ \A x \in 0..(world.width - 1), y \in 0..(world.height - 1) :
              LET pop == LiveNeighbours(prevArea, world.width, world.height, x, y)
                  k == y * world.width + x
              IN  world.area[k] = (pop = 3 \/ (pop = 2 /\ prevArea[k]))

\* C9 witness: an Update of a 3x3 grid that held a dead cell with exactly 2
\* live neighbours, a dead cell with exactly 3, and a live cell with more than 3.
C9_Witness ==
    /\ gen > 0
    /\ world.width = 3 /\ world.height = 3
    /\ \E k \in DOMAIN prevArea :
          /\ ~prevArea[k]
          /\ LiveNeighbours(prevArea, 3, 3, k % 3, k \div 3) = 2
    /\ \E k \in DOMAIN prevArea :
          /\ ~prevArea[k]
          /\ LiveNeighbours(prevArea, 3, 3, k % 3, k \div 3) = 3
    /\ \E k \in DOMAIN prevArea :
          /\ prevArea[k]
          /\ LiveNeighbours(prevArea, 3, 3, k % 3, k \div 3) > 3

\* C10: the glider, after 4 World.Update calls, is the same 5 cells moved by
\* (1, 1), every other cell dead.
C10_GliderMoves ==
    (world.width = GliderDim /\ area0 = GliderWorld.area /\ gen = 4) =>
        world.area = CellsArea(GliderCells(2, 2), GliderDim, GliderDim)

\* C10 witness: the glider world after its fourth Update.
C10_Witness ==
    /\ world.width = GliderDim
    /\ area0 = GliderWorld.area
    /\ gen = 4
    /\ Cardinality({k \in DOMAIN world.area : world.area[k]}) = 5

\* C11: neighbourCount(a, width, height, x, y) is the number of live in-grid
\* Moore neighbours of (x, y): out-of-grid neighbours are left out, the cell
\* itself is not counted, only indices of a are read, a corner cell counts at
\* most 3 and any other edge cell at most 5.
C11_NeighbourCount ==
    \A x \in 0..(world.width - 1), y \in 0..(world.height - 1) :
        LET c == neighbourCount(world.area, world.width, world.height, x, y)
            onX == x = 0 \/ x = world.width - 1
            onY == y = 0 \/ y = world.height - 1
        IN  /\ c = LiveNeighbours(world.area, world.width, world.height, x, y)
            /\ NeighbourReads(world.width, world.height, x, y) \subseteq DOMAIN world.area
            /\ (onX /\ onY) => c <= 3
            /\ (onX \/ onY) => c <= 5

\* C11 witness: a 3x3 grid, all alive: the corner counts 3, the edge cell 5,
\* the centre 8.
C11_Witness ==
    /\ world.width = 3 /\ world.height = 3
    /\ \A k \in DOMAIN world.area : world.area[k]
    /\ neighbourCount(world.area, 3, 3, 0, 0) = 3
    /\ neighbourCount(world.area, 3, 3, 1, 0) = 5
    /\ neighbourCount(world.area, 3, 3, 1, 1) = 8

\* C12: after NewWorld and after every World.Update the width and the height
\* are what they were and len(area) = width*height; an Update leaves the
\* contents of the previous generation's sequence as they were before it.
C12_ShapeKept ==
    /\ [](DOMAIN world.area = 0..(world.width * world.height - 1))
    /\ [][/\ world'.width = world.width
          /\ world'.height = world.height
          /\ gen' /= gen => prevArea' = world.area]_vars

\* C12 witness: a 3x2 world after two Updates, the second of which changed it.
C12_Witness ==
    /\ world.width = 3 /\ world.height = 2
    /\ gen = 2
    /\ prevArea /= world.area
    /\ DOMAIN world.area = 0..5

\* C13: a world whose cells are all dead stays all dead, with the same number
\* of cells, through any number of World.Update calls.
C13_EmptyFixedPoint ==
    (\A k \in DOMAIN area0 : ~area0[k]) =>
        /\ DOMAIN world.area = DOMAIN area0
        /\ \A k \in DOMAIN world.area : ~world.area[k]

\* C13 witness: the all-dead 3x3 world after two Updates.
C13_Witness ==
    /\ world.width = 3 /\ world.height = 3
    /\ \A k \in DOMAIN area0 : ~area0[k]
    /\ gen = 2
    /\ \A k \in DOMAIN world.area : ~world.area[k]

\* C14: Renderer.Update returns the error exactly when the shutdown flag is
\* set and nil otherwise; the flag starts unset, only Shutdown sets it and
\* nothing clears it.
C14_HookReportsFlag ==
    /\ [](~timerFired => ~shutdown)
    /\ [](hostErr = "Shutdown" => shutdown)
    /\ [][/\ shutdown => shutdown'
          /\ (hostPc = "loop" /\ hostPc' = "frame") => ~shutdown
          /\ (hostPc = "loop" /\ hostErr' = "Shutdown") => shutdown]_vars

\* C14 witness: frames were painted while the hook returned nil, then the flag
\* was set and the hook returned the error.
C14_Witness ==
    /\ hostErr = "Shutdown"
    /\ shutdown
    /\ cnt.paints >= 1
    /\ hostPc = "returned"

\* C15: when ebiten.RunGame fails with an error of its own the process ends
\* there: r.ch is not closed, ch is not signalled and RunWorldUpdateLoop does
\* not leave its loop the normal way.
C15_FatalSkipsCleanup ==
    hostErr = "fatal" =>
        /\ ~chClosed
        /\ hostPc = "returned"
        /\ updPc /= "done"

\* C16: World.Draw sets, for every live cell i = y*width + x, the pixel (x, y),
\* which lies inside the width-by-height surface, and sets no other pixel.
C16_DrawAtGridPosition ==
    /\ WorldDraw(world) =
          {<<k % world.width, k \div world.width>> :
              k \in {i \in DOMAIN world.area : world.area[i]}}
    /\ \A p \in WorldDraw(world) :
          /\ p[1] \in 0..(world.width - 1)
          /\ p[2] \in 0..(world.height - 1)

\* C17: with the flag unset and RunGame running, the handshake advances both
\* ways: a Draw waiting in its receive leaves it only when Render sends, a
\* Render on the open channel returns only when Draw has painted and
\* acknowledged, and every Render call started with the flag unset ends with
\* both sides back in their loops after the paint, unless RunGame failed.
C17_HandshakeProgress ==
    /\ [][(hostPc = "drawRecv" /\ hostPc' /= "drawRecv")
             => (updPc = "renderSend" /\ updPc' = "renderRecv")]_vars
    /\ [][(updPc \in {"renderSend", "renderRecv"} /\ updPc' = "select" /\ ~chClosed)
             => (hostPc = "drawAck" /\ hostPc' = "loop")]_vars
    /\ (updPc = "renderSend" /\ ~shutdown)
          ~> ((updPc = "select" /\ hostPc = "loop") \/ hostErr = "fatal")

\* C17 witness: two handshakes have completed with the flag unset, and both
\* sides are back in their loops.
C17_Witness ==
    /\ ~shutdown
    /\ cnt.acks >= 2
    /\ updPc = "select"
    /\ hostPc = "loop"

\* C18: RunWorldUpdateLoop leaves its loop only by receiving on ch, which the
\* rendering goroutine sends after RunGame has returned and r.ch is closed:
\* whenever the loop has exited, RunGame has returned, r.ch is closed and the
\* goroutine has ended; and its send on ch is always received in the end.
C18_ExitOnlyAfterCleanup ==
    /\ [](updPc = "done" => (hostPc = "exited" /\ chClosed /\ hostErr /= "none"))
    /\ [](hostPc = "chSend" => (chClosed /\ hostErr /= "none" /\ updPc /= "done"))
    /\ (hostPc = "chSend") ~> (hostPc = "exited" /\ updPc = "done")

\* C18 witness: RunGame failed, r.ch was closed, and the loop then exited on
\* the receive from ch.
C18_Witness ==
    /\ updPc = "done"
    /\ hostPc = "exited"
    /\ chClosed
    /\ hostErr = "fatal"

\* C19: no goroutine is ever ended by a panic: a send of Render on the closed
\* channel is recovered and Render goes on to its receive, Draw (and so its
\* deferred send) never runs with r.ch closed, and close(r.ch) is executed at
\* most once; a panic is raised on the closed channel only.
C19_NoUnrecoveredPanic ==
    /\ updPc \in {"select", "update", "renderSend", "renderRecv", "done"}
    /\ hostPc \in {"loop", "frame", "drawRecv", "paint", "drawAck",
                   "returned", "chSend", "exited"}
    /\ hostPc \in {"drawRecv", "paint", "drawAck"} => ~chClosed
    /\ cnt.closes <= 1
    /\ cnt.panics > 0 => chClosed

\* C19 witness: two sends of Render ran into the closed channel and the update
\* loop is back at its select.
C19_Witness ==
    /\ cnt.panics >= 2
    /\ chClosed
    /\ updPc = "select"

\* C20: the generation NewWorld seeded is never painted: the k-th paint pass
\* shows the world after exactly k World.Update calls (the first one after
\* exactly one), and what it puts on the surface is World.Draw of that world.
C20_PaintShowsKthUpdate ==
    /\ Len(painted) = cnt.paints
    /\ \A k \in DOMAIN painted : painted[k] = k
    /\ hostPc = "drawAck" =>
          /\ gen = Len(painted)
          /\ gen >= 1
          /\ surface = WorldDraw(world)

\* C20 witness: the second paint pass has just been made, of generation 2.
C20_Witness ==
    /\ hostPc = "drawAck"
    /\ painted = <<1, 2>>
    /\ gen = 2

====
